---- MODULE Spec2Model ----
(***************************************************************************)
(* Cellular-automaton traffic simulation (src/src/ca.py, src/src/rules.py) *)
(* as a state machine: Street objects, the rule pipeline, the Runner loop  *)
(* with its history, and the persistence codec.                            *)
(*                                                                         *)
(* A grid (numpy 2-D array) is a sequence of lanes, each a sequence of     *)
(* integer cells; positions are 1-based here, 0-based in the source.       *)
(* numpy arrays are objects: every Runner has a heap of arrays and the     *)
(* Street's _state, the history entries and the array a rule works on are  *)
(* references (indices) into it, so that in-place updates and aliasing     *)
(* are visible.                                                            *)
(***************************************************************************)
EXTENDS Integers, Sequences, FiniteSets, TLC

\* ----- bounds of the model ------------------------------------------------
MaxLanes == 2
MaxLen == 4
MaxCells == 6
MaxCars == 3
MaxV == 2
MaxSteps == 3
MaxRuns == 2
MaxUpdates == 1
MaxRuleLanes == 3
MaxRuleLen == 3
MaxRuleCars == 3
MaxSpeed == 3

\* ----- small helpers -------------------------------------------------------
Min(a, b) == IF a < b THEN a ELSE b

Max(a, b) == IF a > b THEN a ELSE b

RECURSIVE SumSeq(_)
SumSeq(s) == IF s = <<>> THEN 0 ELSE Head(s) + SumSeq(Tail(s))

\* ndarray.shape[0]
NLanes(state) == Len(state)

\* ndarray.shape[1] (0 when the array has no rows)
LaneLen(state) == IF Len(state) = 0 THEN 0 ELSE Len(state[1])

\* (state >= 0).sum(): the number of occupied cells
CarCount(state) ==
    SumSeq([l \in 1..Len(state) |->
              Cardinality({x \in 1..Len(state[l]) : state[l][x] >= 0})])

\* np.full((lanes, len), -1)
EmptyGrid(lanes, len) == [l \in 1..lanes |-> [x \in 1..len |-> -1]]

\* state[i, index] = v
SetCell(state, i, index, v) == [state EXCEPT ![i][index] = v]

\* ----- rules.py: the rules as functions on arrays --------------------------

\* DummyShuffleRule.apply: np.roll(state, 1, axis=1), a new array
DummyShuffleRule_apply(state) ==
    [l \in 1..Len(state) |->
       [x \in 1..Len(state[l]) |->
          state[l][((x - 2) % Len(state[l])) + 1]]]

\* Accelerate that also speeds up the cars at v_max
Accelerate_apply_UpTo(v_max, state) ==
    [l \in 1..Len(state) |->
       [x \in 1..Len(state[l]) |->
          IF state[l][x] <= v_max /\ state[l][x] >= 0
            THEN state[l][x] + 1
            ELSE state[l][x]]]

\* Accelerate that adds 1 to every occupied cell, whatever its velocity
Accelerate_apply_Uncapped(v_max, state) ==
    [l \in 1..Len(state) |->
       [x \in 1..Len(state[l]) |->
          IF state[l][x] >= 0 THEN state[l][x] + 1 ELSE state[l][x]]]

\* Accelerate.apply: state[(state < v_max) & (state >= 0)] += 1
Accelerate_apply(v_max, state) ==
    [l \in 1..Len(state) |->
       [x \in 1..Len(state[l]) |->
          IF state[l][x] < v_max /\ state[l][x] >= 0
            THEN state[l][x] + 1
            ELSE state[l][x]]]

\* check_following_vehicles without the roll: the window ends at the end of
\* the lane
check_following_vehicles_NoWrap(lane, index, speed) ==
    [j \in 1..Min(speed, Len(lane) - index) |-> lane[index + j] >= 0]

\* check_following_vehicles looking one cell less far
check_following_vehicles_Short(lane, index, speed) ==
    [j \in 1..Min(speed - 1, Len(lane)) |->
       lane[((index + j - 1) % Len(lane)) + 1] >= 0]

\* BreakOrTakeOver.check_following_vehicles: np.roll(lane, -(index + 1))[:speed] >= 0
\* (index is 1-based here; the slice holds min(speed, len) cells)
check_following_vehicles(lane, index, speed) ==
    [j \in 1..Min(speed, Len(lane)) |->
       lane[((index + j - 1) % Len(lane)) + 1] >= 0]

\* ndarray.any()
AnyTrue(gap) == \E j \in 1..Len(gap) : gap[j]

\* BreakOrTakeOver.is_left_lane_clear
is_left_lane_clear(state, lane_idx, index, speed) ==
    ~AnyTrue(check_following_vehicles(state[lane_idx + 1], index, speed))

\* get_gap with the distance to the car ahead instead of the free cells
get_gap_Distance(gap) ==
    CHOOSE j \in 1..Len(gap) : gap[j] /\ \A k \in 1..(j - 1) : ~gap[k]

\* BreakOrTakeOver.get_gap: np.where(gap)[0][0], the 0-based position of the
\* first occupied cell of the window
get_gap(gap) ==
    (CHOOSE j \in 1..Len(gap) : gap[j] /\ \A k \in 1..(j - 1) : ~gap[k]) - 1

\* One pass of the inner loop body of BreakOrTakeOver.apply for cell
\* (i, index); acc = [state, took] with took = cars_indices_that_took_over
BreakOrTakeOver_cell(acc, i, index) ==
    LET state == acc.state
        speed == state[i][index]
        gap_ahead_of_car == check_following_vehicles(state[i], index, speed)
    IN  IF index \in acc.took THEN acc
        ELSE IF speed > 0 /\ AnyTrue(gap_ahead_of_car)
          THEN IF i < NLanes(state) /\ is_left_lane_clear(state, i, index, speed)
                 THEN [state |-> SetCell(SetCell(state, i, index, -1), i + 1, index, speed),
                       took |-> acc.took \cup {index}]
                 ELSE [state |-> SetCell(state, i, index, get_gap(gap_ahead_of_car)),
                       took |-> acc.took]
          ELSE acc

RECURSIVE BreakOrTakeOver_lane(_, _, _)
\* the inner loop: for index, speed in enumerate(lane)
BreakOrTakeOver_lane(acc, i, index) ==
    IF index > Len(acc.state[i]) THEN acc
    ELSE BreakOrTakeOver_lane(BreakOrTakeOver_cell(acc, i, index), i, index + 1)

RECURSIVE BreakOrTakeOver_lanes(_, _)
\* the outer loop: for i, lane in enumerate(state); the list of cars that
\* took over is emptied after each lane
BreakOrTakeOver_lanes(state, i) ==
    IF i > NLanes(state) THEN state
    ELSE BreakOrTakeOver_lanes(
           BreakOrTakeOver_lane([state |-> state, took |-> {}], i, 1).state, i + 1)

RECURSIVE LaneChanges(_, _, _, _, _)
\* the take-overs of BreakOrTakeOver.apply from cell (i, index) on, in the
\* order of its two loops: <<i, index>> for every pass of the loop body that
\* moved the car of cell (i, index) to cell (i + 1, index)
LaneChanges(state, i, index, took, moves) ==
    IF i > NLanes(state) THEN moves
    ELSE IF index > Len(state[i]) THEN LaneChanges(state, i + 1, 1, {}, moves)
    ELSE LET acc == BreakOrTakeOver_cell([state |-> state, took |-> took], i, index)
         IN  LaneChanges(acc.state, i, index + 1, acc.took,
                         IF index \in acc.took \ took
                           THEN moves \cup {<<i, index>>}
                           ELSE moves)

\* BreakOrTakeOver.apply (updates its argument in place)
BreakOrTakeOver_apply(state) == BreakOrTakeOver_lanes(state, 1)

\* Dawdling without the mask: the draw is subtracted from every cell
Dawdling_apply_Unmasked(state, selected) ==
    [l \in 1..Len(state) |->
       [x \in 1..Len(state[l]) |-> state[l][x] - selected[l][x]]]

\* Dawdling.apply, given the array drawn by rand_gen.choice: the draw is
\* zeroed where state <= 0 and subtracted; a new array
Dawdling_apply(state, selected) ==
    [l \in 1..Len(state) |->
       [x \in 1..Len(state[l]) |->
          state[l][x] - (IF state[l][x] <= 0 THEN 0 ELSE selected[l][x])]]

\* MoveForward.get_new_position, 0-based as in the source (index0 = index - 1)
get_new_position(lane, index0, speed) ==
    IF index0 + speed >= Len(lane) THEN index0 + speed - Len(lane)
    ELSE index0 + speed

RECURSIVE MoveForward_cells(_, _, _, _)
\* the two loops of MoveForward.apply from cell (i, index) on; acc is
\* [new_state, err]: a new position outside the lane raises IndexError
MoveForward_cells(state, acc, i, index) ==
    IF i > NLanes(state) \/ acc.err # "" THEN acc
    ELSE IF index > Len(state[i]) THEN MoveForward_cells(state, acc, i + 1, 1)
    ELSE LET speed == state[i][index]
             new_position == get_new_position(state[i], index - 1, speed)
         IN  IF speed >= 0
               THEN IF new_position >= Len(state[i])
                      THEN [acc EXCEPT !.err = "IndexError"]
                      ELSE MoveForward_cells(state,
                             [acc EXCEPT !.new_state =
                                SetCell(acc.new_state, i, new_position + 1, speed)],
                             i, index + 1)
               ELSE MoveForward_cells(state, acc, i, index + 1)

\* MoveForward.apply: [new_state, err], new_state a new array
MoveForward_apply(state) ==
    MoveForward_cells(state,
        [new_state |-> EmptyGrid(NLanes(state), LaneLen(state)), err |-> ""], 1, 1)

RECURSIVE MergeBack_cells(_, _, _)
\* the two loops of MergeBack.apply from cell (i, index) on; the last lane
\* is not processed
MergeBack_cells(state, i, index) ==
    IF i >= NLanes(state) THEN state
    ELSE IF index > Len(state[i]) THEN MergeBack_cells(state, i + 1, 1)
    ELSE IF state[i][index] = -1 /\ state[i + 1][index] # -1
           THEN MergeBack_cells(
                  SetCell(SetCell(state, i, index, state[i + 1][index]), i + 1, index, -1),
                  i, index + 1)
           ELSE MergeBack_cells(state, i, index + 1)

RECURSIVE MergeBacks(_, _, _, _)
\* the merges of MergeBack.apply from cell (i, index) on, in the order of
\* its two loops: <<i, index>> for every pass of the loop body that moved
\* the car of cell (i + 1, index) to cell (i, index)
MergeBacks(state, i, index, moves) ==
    IF i >= NLanes(state) THEN moves
    ELSE IF index > Len(state[i]) THEN MergeBacks(state, i + 1, 1, moves)
    ELSE IF state[i][index] = -1 /\ state[i + 1][index] # -1
           THEN MergeBacks(
                  SetCell(SetCell(state, i, index, state[i + 1][index]), i + 1, index, -1),
                  i, index + 1, moves \cup {<<i, index>>})
           ELSE MergeBacks(state, i, index + 1, moves)

RECURSIVE MergeBack_cells_Down(_, _, _)
\* the loops of MergeBack with the lanes taken from the last but one down
\* to lane 0
MergeBack_cells_Down(state, i, index) ==
    IF i < 1 THEN state
    ELSE IF index > Len(state[i]) THEN MergeBack_cells_Down(state, i - 1, 1)
    ELSE IF state[i][index] = -1 /\ state[i + 1][index] # -1
           THEN MergeBack_cells_Down(
                  SetCell(SetCell(state, i, index, state[i + 1][index]), i + 1, index, -1),
                  i, index + 1)
           ELSE MergeBack_cells_Down(state, i, index + 1)

\* MergeBack processing the lanes downward: a car can fall several lanes
MergeBack_apply_Down(state) == MergeBack_cells_Down(state, NLanes(state) - 1, 1)

\* MergeBack.apply (updates its argument in place)
MergeBack_apply(state) == MergeBack_cells(state, 1, 1)

\* ----- state ----------------------------------------------------------------
VARIABLES
    args,          \* per Runner: the arguments Street(...) is constructed with
    street,        \* per Runner: the Street object's attributes; state is a
                   \* reference into heap, 0 when the attribute _state is gone
    heap,          \* per Runner: the numpy arrays created so far
    rule_list,     \* per Runner: Runner._rule_list, each rule with its own state
    max_timesteps, \* per Runner: Runner._max_timesteps
    history,       \* per Runner: Runner.history, a list of references
    pc,            \* per Runner: where its caller is
    i,             \* per Runner: the loop variable of run()
    calls,         \* per Runner: how many times run() was called
    error,         \* per Runner: the exception that ended the last call
    np_random,     \* the process-wide generator behind np.random.*
    rng_memo,      \* what the generators returned so far (see Sample)
    pickled,       \* the result of the last serialize() call
    restored       \* the Runner returned by the last deserialize() call

vars == <<args, street, heap, rule_list, max_timesteps, history, pc, i, calls,
          error, np_random, rng_memo, pickled, restored>>

Runners == DOMAIN pc

\* the array a reference of Runner r denotes
Deref(r, ref) == heap[r][ref]

\* the contents of Runner r's history, snapshot by snapshot
HistoryGrids(r) == [t \in 1..Len(history[r]) |-> Deref(r, history[r][t])]

\* ----- the rule instances ---------------------------------------------------
\* kind, the constructor arguments, and for Dawdling the position pos of its
\* own generator rand_gen in the stream of RandomState(seed); dawning_fac is
\* in percent
Rule(kind) == [kind |-> kind, v_max |-> 0, dawning_fac |-> 0, seed |-> 0, pos |-> 0]

Accelerate(v_max) == [Rule("Accelerate") EXCEPT !.v_max = v_max]

BreakOrTakeOver == Rule("BreakOrTakeOver")

Dawdling(dawning_fac, seed) ==
    [Rule("Dawdling") EXCEPT !.dawning_fac = dawning_fac, !.seed = seed]

MoveForward == Rule("MoveForward")

MergeBack == Rule("MergeBack")

DummyShuffleRule == Rule("DummyShuffleRule")

\* ----- random generators ----------------------------------------------------
\* A numpy generator seeded with s returns a fixed stream: the k-th request
\* made to a generator seeded with s has the same answer whoever asks.  Which
\* answer is not modelled: it is chosen freely the first time and remembered
\* in rng_memo, one table per kind of request.
Sample(table, key, candidates) ==
    IF key \in DOMAIN table THEN {table[key]} ELSE candidates

Remember(table, key, value) ==
    IF key \in DOMAIN table THEN table ELSE (key :> value) @@ table

\* arrays rand_gen.choice([0, 1], state.shape, p=[1 - f, f]) can return: with
\* f = 0 only zeros, with f = 1 only ones, otherwise any array of zeros and
\* ones.  What is drawn for the cells with state <= 0 does not reach the
\* result of Dawdling.apply, which overwrites it; the arrays with a one in
\* each of those cells stand for all.  An array so chosen belongs to the
\* grid it was chosen for, which is part of the key it is remembered under
\* (Rule_apply): a generator at the same position asked for another grid
\* draws anew.
ChoiceArrays(dawning_fac, state) ==
    LET cells == (1..NLanes(state)) \X (1..LaneLen(state))
        moving == {c \in cells : state[c[1]][c[2]] > 0}
        Arr(S) == [l \in 1..NLanes(state) |->
                     [x \in 1..LaneLen(state) |-> IF <<l, x>> \in S THEN 1 ELSE 0]]
    IN  IF dawning_fac = 0 THEN {Arr({})}
        ELSE IF dawning_fac = 100 THEN {Arr(cells)}
        ELSE {Arr(S \cup (cells \ moving)) : S \in SUBSET moving}

\* ----- Runner._apply_rules --------------------------------------------------
\* While the rules run: m = [heap, ref, err, rules, memo], with ref the array
\* the next rule receives, rules the rule instances (their generators move)
\* and memo the table of rand_gen.choice answers.

\* a rule that returns a new array
Fresh(m, state) == [m EXCEPT !.heap = Append(m.heap, state), !.ref = Len(m.heap) + 1]

\* a rule that updates its argument and returns it
InPlace(m, state) == [m EXCEPT !.heap[m.ref] = state]

\* the rule list walked from its end
RuleAt_Backwards(rules, k) == rules[Len(rules) + 1 - k]

\* for rule in self._rule_list: the rule of the k-th pass of the loop
RuleAt(rules, k) == rules[k]

\* rule.apply(state) in the k-th pass of the loop: the set of possible results
Rule_apply(m, k) ==
    LET rule == RuleAt(m.rules, k)
        state == m.heap[m.ref]
    IN  CASE rule.kind = "Accelerate" ->
               {InPlace(m, Accelerate_apply(rule.v_max, state))}
          [] rule.kind = "BreakOrTakeOver" ->
               {InPlace(m, BreakOrTakeOver_apply(state))}
          [] rule.kind = "Dawdling" ->
               LET key == <<rule.seed, rule.pos, rule.dawning_fac, state>>
               IN  {[Fresh(m, Dawdling_apply(state, selected)) EXCEPT
                       !.rules[k].pos = rule.pos + 1,
                       !.memo = Remember(m.memo, key, selected)] :
                    selected \in Sample(m.memo, key,
                                        ChoiceArrays(rule.dawning_fac, state))}
          [] rule.kind = "MoveForward" ->
               LET res == MoveForward_apply(state)
               IN  {[Fresh(m, res.new_state) EXCEPT !.err = res.err]}
          [] rule.kind = "MergeBack" ->
               {InPlace(m, MergeBack_apply(state))}
          [] rule.kind = "DummyShuffleRule" ->
               {Fresh(m, DummyShuffleRule_apply(state))}

RECURSIVE Rules_from(_, _)
\* for rule in self._rule_list: state = rule.apply(state), from rule k on;
\* an exception ends the loop
Rules_from(m, k) ==
    IF k > Len(m.rules) \/ m.err # "" THEN {m}
    ELSE UNION {Rules_from(m2, k + 1) : m2 \in Rule_apply(m, k)}

\* the rules given the Street's own array instead of a copy
CopyOfState_Alias(r) ==
    [heap |-> heap[r],
     ref |-> street[r].state,
     err |-> "",
     rules |-> rule_list[r],
     memo |-> rng_memo.choice]

\* state = street.get_state().copy(): the rules work on a copy
CopyOfState(r) ==
    [heap |-> Append(heap[r], Deref(r, street[r].state)),
     ref |-> Len(heap[r]) + 1,
     err |-> "",
     rules |-> rule_list[r],
     memo |-> rng_memo.choice]

\* Runner._apply_rules(street): the possible results
apply_rules(r) == Rules_from(CopyOfState(r), 1)

\* ----- Street ---------------------------------------------------------------
\* flat_len = self._lanes * self._lane_len
FlatLen(a) == a.lanes * a.lane_len

\* len(velocities): range(n_cars) is empty for n_cars <= 0
NVelocities(a) == Max(a.n_cars, 0)

\* len(indices[:n_cars]): a negative n_cars drops that many from the end
NCarIdxs(a) ==
    IF a.n_cars >= 0 THEN Min(a.n_cars, FlatLen(a))
    ELSE Max(FlatLen(a) + a.n_cars, 0)

\* rand_gen.randint(0, v_max) raises ValueError unless 0 < v_max; it is
\* called once per car
RandintFails(a) == a.n_cars >= 1 /\ a.v_max <= 0

\* np.full(flat_len, -1) raises ValueError for a negative length
FullFails(a) == FlatLen(a) < 0

\* flat_street[car_idxs] = velocities raises ValueError unless the values
\* broadcast to the indexed cells: as many values as cells, or one value
AssignFails(a) == NVelocities(a) # NCarIdxs(a) /\ NVelocities(a) # 1

\* flat_street.reshape(lanes, lane_len) raises ValueError for a negative
\* dimension (here the sizes never match an inferred dimension)
ReshapeFails(a) == a.lanes < 0 \/ a.lane_len < 0

\* Street._init_state raises
InitStateFails(a) ==
    RandintFails(a) \/ FullFails(a) \/ AssignFails(a) \/ ReshapeFails(a)

\* the lists [rand_gen.randint(0, v_max) for _ in range(n_cars)] can be
Velocities(a) == [1..NVelocities(a) -> 0..(a.v_max - 1)]

RECURSIVE IncreasingSeqs(_, _)
\* the strictly increasing sequences of length n over lo..hi
IncreasingSeqs(n, S) ==
    IF n = 0 THEN {<<>>}
    ELSE UNION {{<<x>> \o t : t \in IncreasingSeqs(n - 1, {y \in S : y > x})} : x \in S}

\* what indices[:n_cars] can be after np.random.shuffle(indices): any choice
\* of distinct flat positions (0-based).  Reordering the positions and the
\* velocities together gives the same street, so one order stands for all.
CarIdxs(a) == IncreasingSeqs(NCarIdxs(a), 0..(FlatLen(a) - 1))

\* the array _init_state returns for given draws: flat_street[car_idxs] =
\* velocities, then reshape(lanes, lane_len) (row-major)
init_state(a, velocities, car_idxs) ==
    [l \in 1..a.lanes |->
       [x \in 1..a.lane_len |->
          LET flat == (l - 1) * a.lane_len + (x - 1)
              hit == {k \in 1..Len(car_idxs) : car_idxs[k] = flat}
          IN  IF hit = {} THEN -1
              ELSE velocities[CHOOSE k \in hit : TRUE]]]

\* the memo keys of the two requests of _init_state: RandomState(seed) is
\* new (position 0); the shuffle uses the process-wide generator g.  The
\* velocities are remembered in the order of the increasing positions
\* CarIdxs keeps, an order that belongs to one shuffle: the key of the
\* velocities therefore names the size that was shuffled, and a Street of
\* another size draws anew.
RandintKey(a) == <<a.seed, 0, a.v_max, a.n_cars, FlatLen(a)>>

ShuffleKey(g, a) == <<g.seed, g.pos, FlatLen(a), a.n_cars>>

\* _init_state without its np.random.seed(seed): the shuffle draws from
\* wherever the process-wide generator stands
np_random_seed_Skipped(g, seed) == g

\* np.random.seed(seed)
np_random_seed(g, seed) == [seed |-> seed, pos |-> 0]

\* update that stores the new array before it checks it
update_StoreFirst(str, ref, new_state) ==
    [street |-> [str EXCEPT !.state = ref],
     raised |-> str.n_cars # CarCount(new_state)]

\* Street.update(new_state), new_state being the array at reference ref:
\* the assertion on the number of cars, then self._state = new_state
update(str, ref, new_state) ==
    IF str.n_cars = CarCount(new_state)
      THEN [street |-> [str EXCEPT !.state = ref], raised |-> FALSE]
      ELSE [street |-> str, raised |-> TRUE]

\* Street.__init__ with _init_state: a Street or a ValueError.  The
\* process-wide generator is reseeded once np.full has succeeded.
Street_init(r) ==
    /\ pc[r] = "new"
    /\ LET a == args[r]
           g == np_random_seed(np_random, a.seed)
       IN  IF InitStateFails(a)
             THEN /\ pc' = [pc EXCEPT ![r] = "no_street"]
                  /\ error' = [error EXCEPT ![r] = "ValueError"]
                  /\ np_random' = IF RandintFails(a) \/ FullFails(a)
                                    THEN np_random
                                    ELSE [g EXCEPT !.pos = g.pos + 1]
                  /\ UNCHANGED <<street, heap, rng_memo>>
             ELSE \E velocities \in Sample(rng_memo.randint, RandintKey(a), Velocities(a)),
                     car_idxs \in Sample(rng_memo.shuffle, ShuffleKey(g, a), CarIdxs(a)) :
                    /\ street' = [street EXCEPT ![r] =
                                    [lanes |-> a.lanes, lane_len |-> a.lane_len,
                                     n_cars |-> a.n_cars, v_max |-> a.v_max,
                                     seed |-> a.seed, state |-> 1]]
                    /\ heap' = [heap EXCEPT ![r] = <<init_state(a, velocities, car_idxs)>>]
                    /\ rng_memo' = [rng_memo EXCEPT
                                      !.randint = Remember(@, RandintKey(a), velocities),
                                      !.shuffle = Remember(@, ShuffleKey(g, a), car_idxs)]
                    /\ np_random' = [g EXCEPT !.pos = g.pos + 1]
                    /\ pc' = [pc EXCEPT ![r] = "street"]
                    /\ UNCHANGED error
    /\ UNCHANGED <<args, rule_list, max_timesteps, history, i, calls, pickled, restored>>

\* grids a caller may hand to Street.update
UpdateShapes == {<<1, 1>>, <<1, 2>>, <<2, 1>>, <<2, 2>>, <<1, 3>>}

UpdateGrids ==
    UNION {[1..sh[1] -> [1..sh[2] -> -1..1]] : sh \in UpdateShapes}

\* Street.update(new_state) called directly on a Street
Street_update(r) ==
    /\ pc[r] = "street"
    /\ Len(heap[r]) <= MaxUpdates
    /\ \E new_state \in UpdateGrids :
         LET res == update(street[r], Len(heap[r]) + 1, new_state)
         IN  /\ heap' = [heap EXCEPT ![r] = Append(@, new_state)]
             /\ street' = [street EXCEPT ![r] = res.street]
             /\ error' = [error EXCEPT ![r] = IF res.raised THEN "AssertionError" ELSE ""]
    /\ UNCHANGED <<args, rule_list, max_timesteps, history, pc, i, calls,
                   np_random, rng_memo, pickled, restored>>

\* ----- Runner ---------------------------------------------------------------
\* Runner.__init__(street, rule_list, max_timesteps)
Runner_init(r) ==
    /\ pc[r] = "street"
    /\ history' = [history EXCEPT ![r] = <<>>]
    /\ pc' = [pc EXCEPT ![r] = "ready"]
    /\ UNCHANGED <<args, street, heap, rule_list, max_timesteps, i, calls, error,
                   np_random, rng_memo, pickled, restored>>

\* a call of Runner.run() enters the loop
Run_call(r) ==
    /\ pc[r] \in {"ready", "completed", "failed"}
    /\ calls[r] < MaxRuns
    /\ pc' = [pc EXCEPT ![r] = "running"]
    /\ i' = [i EXCEPT ![r] = 0]
    /\ calls' = [calls EXCEPT ![r] = @ + 1]
    /\ error' = [error EXCEPT ![r] = ""]
    /\ UNCHANGED <<args, street, heap, rule_list, max_timesteps, history,
                   np_random, rng_memo, pickled, restored>>

\* run() ends with an exception
Raise(r, exc) ==
    /\ pc' = [pc EXCEPT ![r] = "failed"]
    /\ error' = [error EXCEPT ![r] = exc]

\* the first pass of the loop: history.append(street.get_state())
Run_first(r) ==
    /\ pc[r] = "running"
    /\ i[r] = 0
    /\ i[r] < max_timesteps[r]
    /\ IF street[r].state = 0
         THEN Raise(r, "AttributeError") /\ UNCHANGED <<history, i>>
         ELSE /\ history' = [history EXCEPT ![r] = Append(@, street[r].state)]
              /\ i' = [i EXCEPT ![r] = 1]
              /\ UNCHANGED <<pc, error>>
    /\ UNCHANGED <<args, street, heap, rule_list, max_timesteps, calls,
                   np_random, rng_memo, pickled, restored>>

\* a later pass: new_state = self._apply_rules(street);
\* street.update(new_state); history.append(new_state)
Run_step(r) ==
    /\ pc[r] = "running"
    /\ 0 < i[r]
    /\ i[r] < max_timesteps[r]
    /\ UNCHANGED <<args, max_timesteps, calls, np_random, pickled, restored>>
    /\ IF street[r].state = 0
         THEN /\ Raise(r, "AttributeError")
              /\ UNCHANGED <<street, heap, rule_list, history, i, rng_memo>>
         ELSE \E m \in apply_rules(r) :
                /\ heap' = [heap EXCEPT ![r] = m.heap]
                /\ rule_list' = [rule_list EXCEPT ![r] = m.rules]
                /\ rng_memo' = [rng_memo EXCEPT !.choice = m.memo]
                /\ IF m.err # ""
                     THEN Raise(r, m.err) /\ UNCHANGED <<street, history, i>>
                     ELSE LET res == update(street[r], m.ref, m.heap[m.ref])
                          IN  /\ street' = [street EXCEPT ![r] = res.street]
                              /\ IF res.raised
                                    THEN Raise(r, "AssertionError") /\ UNCHANGED <<history, i>>
                                    ELSE /\ history' = [history EXCEPT ![r] = Append(@, m.ref)]
                                         /\ i' = [i EXCEPT ![r] = @ + 1]
                                         /\ UNCHANGED <<pc, error>>

\* the loop is over: run() returns
Run_return(r) ==
    /\ pc[r] = "running"
    /\ i[r] >= max_timesteps[r]
    /\ pc' = [pc EXCEPT ![r] = "completed"]
    /\ UNCHANGED <<args, street, heap, rule_list, max_timesteps, history, i, calls,
                   error, np_random, rng_memo, pickled, restored>>

\* ----- Runner: metrics -----------------------------------------------------
\* np.zeros(self._max_timesteps): what both metrics return for an empty
\* history (an empty array for max_timesteps = 0)
Zeros(n) == [t \in 1..Max(n, 0) |-> 0]

\* the sum a mean over the occupied cells divides, and the number of cells
\* it divides by
SpeedSum(grid) ==
    SumSeq([l \in 1..Len(grid) |->
              SumSeq([x \in 1..Len(grid[l]) |->
                        IF grid[l][x] >= 0 THEN grid[l][x] ELSE 0])])

\* a metric with one entry per planned timestep instead of per snapshot
metric_avg_rel_speed_Planned(r) ==
    [t \in 1..max_timesteps[r] |-> [num |-> 0, den |-> 1]]

\* Runner.metric_avg_rel_speed(): history.mean(axis=(1, 2), where=(history >= 0))
\* / v_max, each entry kept as the fraction num / den (den = 0 is numpy's
\* nan or inf); zeros for an empty history
metric_avg_rel_speed(r) ==
    IF Len(history[r]) = 0
      THEN [t \in 1..Max(max_timesteps[r], 0) |-> [num |-> 0, den |-> 1]]
      ELSE [t \in 1..Len(history[r]) |->
              [num |-> SpeedSum(HistoryGrids(r)[t]),
               den |-> CarCount(HistoryGrids(r)[t]) * street[r].v_max]]

\* int(self._street._lane_len * percentage) with percentage = 0.1
LastStretchLen(lane_len) == lane_len \div 10

\* lane[-w:], as 1-based positions of a lane of length len: the last w
\* cells, and for w = 0 the slice [-0:] = [0:], every cell
LastStretch(len, w) ==
    IF w = 0 THEN 1..len ELSE (Max(len - w, 0) + 1)..len

\* the throughput metric counting the cells of the last stretch, occupied
\* or not
metric_car_throughput_Cells(r) ==
    IF Len(history[r]) = 0 THEN Zeros(max_timesteps[r])
    ELSE [t \in 1..Len(history[r]) |->
            LET grid == HistoryGrids(r)[t]
            IN  NLanes(grid) * Cardinality(
                  LastStretch(LaneLen(grid), LastStretchLen(street[r].lane_len)))]

\* Runner.metric_car_throughput(): per snapshot the number of occupied cells
\* of history[:, :, -int(lane_len * 0.1):]; zeros for an empty history
metric_car_throughput(r) ==
    IF Len(history[r]) = 0 THEN Zeros(max_timesteps[r])
    ELSE [t \in 1..Len(history[r]) |->
            LET grid == HistoryGrids(r)[t]
                stretch == LastStretch(LaneLen(grid), LastStretchLen(street[r].lane_len))
            IN  SumSeq([l \in 1..NLanes(grid) |->
                          Cardinality({x \in stretch : grid[l][x] >= 0})])]

\* ----- persistence ----------------------------------------------------------
\* max_timesteps: int = 250, the default deserialize() leaves in place
DefaultMaxTimesteps == 250

\* np.array(self.history): the snapshots stacked into one 3-D array, stored
\* as its shape and its cells in row-major order; np.array([]) has shape (0,)
StackHistory(grids) ==
    IF Len(grids) = 0 THEN [shape |-> <<0>>, data |-> <<>>]
    ELSE LET T == Len(grids)
             lanes == NLanes(grids[1])
             len == LaneLen(grids[1])
         IN  [shape |-> <<T, lanes, len>>,
              data |-> [k \in 1..(T * lanes * len) |->
                          grids[((k - 1) \div (lanes * len)) + 1]
                               [(((k - 1) % (lanes * len)) \div len) + 1]
                               [((k - 1) % len) + 1]]]

\* list(history_ndarray): the sub-arrays along the first axis
UnstackHistory(arr) ==
    IF Len(arr.shape) = 1 THEN <<>>
    ELSE [t \in 1..arr.shape[1] |->
            [l \in 1..arr.shape[2] |->
               [x \in 1..arr.shape[3] |->
                  arr.data[((t - 1) * arr.shape[2] + (l - 1)) * arr.shape[3] + x]]]]

\* street.__dict__ after pop('_state')
StreetParameters(str) ==
    [lanes |-> str.lanes, lane_len |-> str.lane_len, n_cars |-> str.n_cars,
     v_max |-> str.v_max, seed |-> str.seed]

NoPickle ==
    [status |-> "none", of |-> 0,
     street_parameters |-> [lanes |-> 0, lane_len |-> 0, n_cars |-> 0, v_max |-> 0, seed |-> 0],
     rule_list |-> <<>>, history_compressed |-> StackHistory(<<>>)]

\* Runner.serialize(): the history is stacked, then '_state' is popped from
\* the Street's own __dict__ (KeyError when it is no longer there), then
\* the three parts are pickled
serialize(r) ==
    /\ pc[r] \in {"ready", "completed", "failed"}
    /\ IF street[r].state = 0
         THEN /\ pickled' = [NoPickle EXCEPT !.status = "KeyError", !.of = r]
              /\ UNCHANGED street
         ELSE /\ pickled' = [status |-> "ok", of |-> r,
                             street_parameters |-> StreetParameters(street[r]),
                             rule_list |-> rule_list[r],
                             history_compressed |-> StackHistory(HistoryGrids(r))]
              /\ street' = [street EXCEPT ![r].state = 0]
    /\ UNCHANGED <<args, heap, rule_list, max_timesteps, history, pc, i, calls,
                   error, np_random, rng_memo, restored>>

\* Runner.deserialize(bytes): a new Street from the stored parameters, the
\* stored rule list, the default max_timesteps, the history unstacked
deserialize ==
    /\ pickled.status = "ok"
    /\ LET sp == pickled.street_parameters
           g == np_random_seed(np_random, sp.seed)
       IN  /\ ~InitStateFails(sp)
           /\ \E velocities \in Sample(rng_memo.randint, RandintKey(sp), Velocities(sp)),
                 car_idxs \in Sample(rng_memo.shuffle, ShuffleKey(g, sp), CarIdxs(sp)) :
                /\ restored' =
                     <<[street |-> [lanes |-> sp.lanes, lane_len |-> sp.lane_len,
                                    n_cars |-> sp.n_cars, v_max |-> sp.v_max,
                                    seed |-> sp.seed,
                                    state |-> init_state(sp, velocities, car_idxs)],
                        rule_list |-> pickled.rule_list,
                        max_timesteps |-> DefaultMaxTimesteps,
                        history |-> UnstackHistory(pickled.history_compressed)]>>
                /\ rng_memo' = [rng_memo EXCEPT
                                  !.randint = Remember(@, RandintKey(sp), velocities),
                                  !.shuffle = Remember(@, ShuffleKey(g, sp), car_idxs)]
                /\ np_random' = [g EXCEPT !.pos = g.pos + 1]
    /\ UNCHANGED <<args, street, heap, rule_list, max_timesteps, history, pc, i,
                   calls, error, pickled>>

\* ----- configurations -------------------------------------------------------
Seeds == {7}

\* the Street arguments of the simulations: positive sizes, cars that fit
ValidArgs ==
    {a \in [lanes : 1..MaxLanes, lane_len : 1..MaxLen, n_cars : 1..MaxCars,
            v_max : 1..MaxV, seed : Seeds] :
       a.lanes * a.lane_len <= MaxCells /\ a.n_cars <= a.lanes * a.lane_len}

\* any Street arguments, also non-positive ones
AnyArgs ==
    [lanes : -1..MaxLanes, lane_len : -1..MaxLen, n_cars : -1..MaxCars,
     v_max : -1..MaxV, seed : Seeds]

\* the canonical pipeline
Canonical(v_max, dawning_fac, seed) ==
    <<Accelerate(v_max), BreakOrTakeOver, Dawdling(dawning_fac, seed), MoveForward, MergeBack>>

\* the single-lane pipeline: the rule list run_simulation of ui.py builds
\* with every checkbox ticked but merge-back
SingleLane(v_max, dawning_fac, seed) ==
    <<Accelerate(v_max), BreakOrTakeOver, Dawdling(dawning_fac, seed), MoveForward>>

\* a pipeline without the braking rule (its checkbox unticked in ui.py)
NoBrake(v_max) == <<Accelerate(v_max), MoveForward>>

\* the rule lists the Runners are built with
RuleLists(a) ==
    {Canonical(a.v_max, 20, a.seed), Canonical(a.v_max, 100, a.seed),
     NoBrake(a.v_max), <<DummyShuffleRule>>}
    \cup (IF a.lanes = 1
            THEN {SingleLane(a.v_max, 20, a.seed), SingleLane(a.v_max, 0, a.seed)}
            ELSE {})

NoStreet == [lanes |-> 0, lane_len |-> 0, n_cars |-> 0, v_max |-> 0, seed |-> 0, state |-> 0]

\* the part of the initial state that does not depend on the configuration
InitRest(ids) ==
    /\ street = [r \in ids |-> NoStreet]
    /\ heap = [r \in ids |-> <<>>]
    /\ history = [r \in ids |-> <<>>]
    /\ pc = [r \in ids |-> "new"]
    /\ i = [r \in ids |-> 0]
    /\ calls = [r \in ids |-> 0]
    /\ error = [r \in ids |-> ""]
    /\ np_random = [seed |-> 0, pos |-> 0]
    /\ rng_memo = [randint |-> <<>>, shuffle |-> <<>>, choice |-> <<>>]
    /\ pickled = NoPickle
    /\ restored = <<>>

\* ----- one Runner: construction, run(), serialize(), deserialize() -----------
Init ==
    /\ \E a \in ValidArgs :
         /\ args = <<a>>
         /\ rule_list \in {<<rl>> : rl \in RuleLists(a)}
    /\ max_timesteps \in {<<n>> : n \in 1..MaxSteps}
    /\ InitRest({1})

Next ==
    \E r \in Runners :
        \/ Street_init(r)
        \/ Runner_init(r)
        \/ Run_call(r)
        \/ Run_first(r)
        \/ Run_step(r)
        \/ Run_return(r)

Spec == Init /\ [][Next]_vars

\* ----- one Runner that is also saved and restored ---------------------------
NextPersist ==
    \/ Next
    \/ \E r \in Runners : serialize(r)
    \/ deserialize

SpecPersist == Init /\ [][NextPersist]_vars

\* ----- a Street on its own: construction with any arguments, update() ------
InitStreet ==
    /\ args \in {<<a>> : a \in AnyArgs}
    /\ rule_list = <<<<>>>>
    /\ max_timesteps = <<1>>
    /\ InitRest({1})

NextStreet ==
    \E r \in Runners :
        \/ Street_init(r)
        \/ Street_update(r)

SpecStreet == InitStreet /\ [][NextStreet]_vars

\* ----- two Runners built from the same configuration -------------------------
InitTwin ==
    /\ \E a \in ValidArgs :
         /\ args = <<a, a>>
         /\ rule_list \in {<<rl, rl>> : rl \in RuleLists(a)}
    /\ max_timesteps \in {<<n, n>> : n \in 1..MaxSteps}
    /\ InitRest({1, 2})

\* each of the two is constructed and run once, in any interleaving
NextTwin ==
    \E r \in Runners :
        \/ Street_init(r)
        \/ Runner_init(r)
        \/ (calls[r] = 0 /\ Run_call(r))
        \/ Run_first(r)
        \/ Run_step(r)
        \/ Run_return(r)

SpecTwin == InitTwin /\ [][NextTwin]_vars

\* ----- one pass of a rule list over any grid ----------------------------------
\* the grids with at most MaxRuleCars cars at velocities 0..MaxSpeed
RuleGrids ==
    UNION {
      UNION {
        {[l \in 1..lanes |-> [x \in 1..len |->
            IF <<l, x>> \in cars THEN vel[<<l, x>>] ELSE -1]] :
         vel \in [cars -> 0..MaxSpeed]} :
        cars \in {c \in SUBSET ((1..lanes) \X (1..len)) : Cardinality(c) <= MaxRuleCars}} :
      lanes \in 1..MaxRuleLanes, len \in 1..MaxRuleLen}

\* the rule lists of the pass: each rule on its own, and braking followed by
\* Dawdling and MoveForward
RuleListsOfPass ==
    {<<Accelerate(v_max)>> : v_max \in 0..MaxSpeed}
    \cup {<<Dawdling(f, seed)>> : f \in {0, 20, 100}, seed \in Seeds}
    \cup {<<BreakOrTakeOver>>, <<MoveForward>>, <<MergeBack>>}
    \cup {<<BreakOrTakeOver, Dawdling(20, seed), MoveForward>> : seed \in Seeds}

\* A Runner in run(), the first pass of the loop done, on a Street that
\* holds any grid (Street.update stores any grid with n_cars cars); the
\* next pass gives that grid to the rules.
InitPass ==
    /\ \E grid \in RuleGrids, seed \in Seeds :
         /\ args = <<[lanes |-> NLanes(grid), lane_len |-> LaneLen(grid),
                      n_cars |-> CarCount(grid), v_max |-> MaxSpeed, seed |-> seed]>>
         /\ street = <<[lanes |-> NLanes(grid), lane_len |-> LaneLen(grid),
                        n_cars |-> CarCount(grid), v_max |-> MaxSpeed, seed |-> seed,
                        state |-> 1]>>
         /\ heap = <<<<grid>>>>
         /\ np_random = [seed |-> seed, pos |-> 1]
    /\ rule_list \in {<<rl>> : rl \in RuleListsOfPass}
    /\ max_timesteps = <<2>>
    /\ history = <<<<1>>>>
    /\ pc = <<"running">>
    /\ i = <<1>>
    /\ calls = <<1>>
    /\ error = <<"">>
    /\ rng_memo = [randint |-> <<>>, shuffle |-> <<>>, choice |-> <<>>]
    /\ pickled = NoPickle
    /\ restored = <<>>

NextPass ==
    \E r \in Runners :
        \/ Run_step(r)
        \/ Run_return(r)

SpecPass == InitPass /\ [][NextPass]_vars

\* ===== properties ==============================================================

\* the Runners that exist (their Street was constructed)
Built(r) == pc[r] \notin {"new", "no_street"}

\* the kinds of the rules of a list, in order
Kinds(rl) == [k \in 1..Len(rl) |-> rl[k].kind]

\* Runner r was built with the canonical pipeline for its Street's v_max
HasCanonical(r) ==
    /\ Kinds(rule_list[r]) =
         <<"Accelerate", "BreakOrTakeOver", "Dawdling", "MoveForward", "MergeBack">>
    /\ rule_list[r][1].v_max = street[r].v_max

\* Runner r was built with the single-lane pipeline for its Street's v_max
HasSingleLane(r) ==
    /\ Kinds(rule_list[r]) = <<"Accelerate", "BreakOrTakeOver", "Dawdling", "MoveForward">>
    /\ rule_list[r][1].v_max = street[r].v_max

\* the grid Street(...) of Runner r returned at construction, from the
\* answers its generators gave
InitialGrid(r) ==
    init_state(args[r],
               rng_memo.randint[RandintKey(args[r])],
               rng_memo.shuffle[<<args[r].seed, 0, FlatLen(args[r]), args[r].n_cars>>])

\* every snapshot of Runner r's history holds n_cars cars
HistoryKeepsCars(r) ==
    \A t \in 1..Len(history[r]) : CarCount(HistoryGrids(r)[t]) = street[r].n_cars

\* C1: with the canonical pipeline, on any number of lanes, every pass keeps
\* car_count occupied cells: the assertion of Street.update never fails and
\* every snapshot of the history holds car_count cars.
C1_CanonicalConserves ==
    \A r \in Runners :
        (Built(r) /\ HasCanonical(r) /\ street[r].lanes >= 1)
            => (error[r] # "AssertionError" /\ HistoryKeepsCars(r))

\* C2: on one lane with v_max < length the single-lane pipeline keeps
\* car_count occupied cells in every snapshot, whatever Dawdling draws, and
\* no pass of the run fails.
C2_SingleLaneConserves ==
    \A r \in Runners :
        (Built(r) /\ HasSingleLane(r) /\ street[r].lanes = 1
                  /\ street[r].v_max < street[r].lane_len)
            => (error[r] \notin {"AssertionError", "IndexError"} /\ HistoryKeepsCars(r))

\* C2 witness: a single-lane run is complete, and in its last snapshot one
\* car stands (it braked or dawdled) behind a car that moves
C2_Witness ==
    \E r \in Runners :
        /\ HasSingleLane(r) /\ street[r].lanes = 1
        /\ street[r].v_max < street[r].lane_len
        /\ pc[r] = "completed" /\ Len(history[r]) = MaxSteps
        /\ LET last == HistoryGrids(r)[MaxSteps][1]
           IN  \E x, y \in 1..Len(last) : last[x] = 0 /\ last[y] > 0
        /\ HistoryGrids(r)[MaxSteps] # HistoryGrids(r)[1]

\* the grids a rule can turn a grid into
RuleImages(rule, g) ==
    CASE rule.kind = "Accelerate" -> {Accelerate_apply(rule.v_max, g)}
      [] rule.kind = "BreakOrTakeOver" -> {BreakOrTakeOver_apply(g)}
      [] rule.kind = "Dawdling" ->
           {Dawdling_apply(g, sel) : sel \in ChoiceArrays(rule.dawning_fac, g)}
      [] rule.kind = "MoveForward" ->
           IF MoveForward_apply(g).err = "" THEN {MoveForward_apply(g).new_state} ELSE {}
      [] rule.kind = "MergeBack" -> {MergeBack_apply(g)}
      [] rule.kind = "DummyShuffleRule" -> {DummyShuffleRule_apply(g)}

RECURSIVE InListOrder(_, _, _)
\* the grids the rules k, k+1, ... of a list, each fed the output of the one
\* before, can turn the grids gs into
InListOrder(rl, k, gs) ==
    IF k > Len(rl) THEN gs
    ELSE InListOrder(rl, k + 1, UNION {RuleImages(rl[k], g) : g \in gs})

\* a rule list with the probability of every Dawdling set to 0
NeverDawdling(rl) ==
    [k \in 1..Len(rl) |->
       IF rl[k].kind = "Dawdling" THEN [rl[k] EXCEPT !.dawning_fac = 0] ELSE rl[k]]

\* C3: two Runners with the same configuration and their own rule instances
\* produce the same history, entry by entry (their Streets start from the
\* same grid, and every later snapshot agrees).
C3_SameHistories ==
    \A r1, r2 \in Runners :
        /\ (Built(r1) /\ Built(r2)) => heap[r1][1] = heap[r2][1]
        /\ \A t \in 1..Min(Len(history[r1]), Len(history[r2])) :
              HistoryGrids(r1)[t] = HistoryGrids(r2)[t]
        /\ (pc[r1] = "completed" /\ pc[r2] = "completed")
              => HistoryGrids(r1) = HistoryGrids(r2)

\* C3 witness: both Runners completed a run of MaxSteps steps in which
\* Dawdling slowed a car down
C3_Witness ==
    /\ Runners = {1, 2}
    /\ pc[1] = "completed" /\ pc[2] = "completed"
    /\ Len(history[1]) = MaxSteps /\ Len(history[2]) = MaxSteps
    /\ \E t \in 1..(MaxSteps - 1) :
         HistoryGrids(1)[t + 1] \notin
            InListOrder(NeverDawdling(rule_list[1]), 1, {HistoryGrids(1)[t]})
    /\ HistoryGrids(1)[MaxSteps] # HistoryGrids(1)[1]

\* the restored Runner has the history and the Street parameters of Runner r
SameAsRestored(r) ==
    /\ restored[1].history = HistoryGrids(r)
    /\ StreetParameters(restored[1].street) = StreetParameters(street[r])

\* C4: for every Runner r, deserialize(r.serialize()) is a Runner with r's
\* history, snapshot by snapshot, and r's Street parameters.
C4_RoundTrip ==
    /\ pickled.status # "KeyError"
    /\ (Len(restored) = 1) => SameAsRestored(pickled.of)

\* C5: after one successful run() on a new Runner, history has max_timesteps
\* entries, the first is the Street's initial grid unmodified, and each
\* later one is the rule list applied in list order to the one before.
C5_HistoryOfOneRun ==
    \A r \in Runners :
        (pc[r] = "completed" /\ calls[r] = 1)
            => /\ Len(history[r]) = max_timesteps[r]
               /\ HistoryGrids(r)[1] = InitialGrid(r)
               /\ \A t \in 2..Len(history[r]) :
                     HistoryGrids(r)[t] \in
                        InListOrder(rule_list[r], 1, {HistoryGrids(r)[t - 1]})

\* C5 witness: a first run of MaxSteps steps with the canonical pipeline on
\* two lanes is complete and the cars have moved
C5_Witness ==
    \E r \in Runners :
        /\ pc[r] = "completed" /\ calls[r] = 1
        /\ HasCanonical(r) /\ street[r].lanes = 2
        /\ max_timesteps[r] = MaxSteps
        /\ HistoryGrids(r)[2] # HistoryGrids(r)[1]
        /\ HistoryGrids(r)[3] # HistoryGrids(r)[2]

\* C6: a second run() either fails or resets the history and reruns: when
\* it returns, history has max_timesteps entries and starts at the initial
\* grid; the two runs are never concatenated.
C6_SecondRunResets ==
    \A r \in Runners :
        (pc[r] = "completed" /\ calls[r] >= 2)
            => /\ Len(history[r]) = max_timesteps[r]
               /\ HistoryGrids(r)[1] = InitialGrid(r)

\* C7: history is append-only: a step never shortens it, and a snapshot once
\* appended keeps its index and its cells, also under rules that update
\* their argument in place.
C7_HistoryAppendOnly ==
    [][\A r \in Runners :
          /\ Len(history'[r]) >= Len(history[r])
          /\ \A t \in 1..Len(history[r]) :
                heap'[r][history'[r][t]] = heap[r][history[r][t]]]_vars

\* C7 witness: a second run() appended to the history of a Runner whose rule
\* list has rules that update in place
C7_Witness ==
    \E r \in Runners :
        /\ HasCanonical(r)
        /\ calls[r] = 2
        /\ Len(history[r]) > max_timesteps[r] + 1
        /\ HistoryGrids(r)[Len(history[r])] # HistoryGrids(r)[1]

\* C8: when a pass produces a grid with another number of cars than n_cars,
\* run() stops with nothing changed: the Street still holds the grid of the
\* last committed step and the history holds the snapshots committed before.
C8_FailStop ==
    [][\A r \in Runners :
          (pc[r] = "running" /\ pc'[r] = "failed" /\ error'[r] = "AssertionError")
              => /\ street'[r] = street[r]
                 /\ heap'[r][street'[r].state] = heap[r][street[r].state]
                 /\ heap'[r][street'[r].state] = heap'[r][history'[r][Len(history'[r])]]
                 /\ Len(history'[r]) = Len(history[r])
                 /\ \A t \in 1..Len(history[r]) :
                       heap'[r][history'[r][t]] = heap[r][history[r][t]]]_vars

\* C8 witness: without the braking rule two cars were moved onto one cell
\* after at least one committed step, and run() failed
C8_Witness ==
    \E r \in Runners :
        /\ Kinds(rule_list[r]) = <<"Accelerate", "MoveForward">>
        /\ pc[r] = "failed" /\ error[r] = "AssertionError"
        /\ Len(history[r]) >= 2

\* C9: Street.update rejects a grid of another shape than lanes x lane_len,
\* also when it holds n_cars cars: the Street's grid always has that shape.
C9_UpdateKeepsShape ==
    \A r \in Runners :
        (pc[r] = "street" /\ street[r].lanes >= 1 /\ street[r].lane_len >= 1)
            => LET state == Deref(r, street[r].state)
               IN  NLanes(state) = street[r].lanes /\ LaneLen(state) = street[r].lane_len

\* C10: constructing a Street fails when lanes, lane_len, n_cars or v_max is
\* <= 0 or n_cars exceeds lanes x lane_len: every Street that exists has
\* positive arguments and cars that fit.
C10_ConstructionValidates ==
    \A r \in Runners :
        pc[r] = "street"
            => /\ args[r].lanes > 0 /\ args[r].lane_len > 0
               /\ args[r].n_cars > 0 /\ args[r].v_max > 0
               /\ args[r].n_cars <= args[r].lanes * args[r].lane_len

\* every cell of a grid lies in lo..hi
CellsWithin(grid, lo, hi) ==
    \A l \in 1..Len(grid) : \A x \in 1..Len(grid[l]) :
        grid[l][x] >= lo /\ grid[l][x] <= hi

\* every Accelerate of Runner r's rule list has the Street's v_max
AccelerateMatches(r) ==
    \A k \in 1..Len(rule_list[r]) :
        rule_list[r][k].kind = "Accelerate" => rule_list[r][k].v_max = street[r].v_max

\* C11: for a Street with v_max >= 1 and a pipeline whose Accelerate uses
\* the same v_max, the initial grid has velocities in [0, v_max) and every
\* cell of every history snapshot, and of every array a pass returned, is
\* in [-1, v_max].
C11_CellRange ==
    \A r \in Runners :
        (Built(r) /\ street[r].v_max >= 1 /\ AccelerateMatches(r))
            => /\ CellsWithin(InitialGrid(r), -1, street[r].v_max - 1)
               /\ \A t \in 1..Len(history[r]) :
                     CellsWithin(HistoryGrids(r)[t], -1, street[r].v_max)
               /\ \A k \in 1..Len(heap[r]) :
                     CellsWithin(heap[r][k], -1, street[r].v_max)

\* C11 witness: under the canonical pipeline a snapshot after the first
\* holds a car at velocity v_max = MaxV and a car that stands
C11_Witness ==
    \E r \in Runners :
        /\ HasCanonical(r) /\ street[r].v_max = MaxV
        /\ \E t \in 2..Len(history[r]) :
             LET grid == HistoryGrids(r)[t]
             IN  /\ \E l \in 1..Len(grid) : \E x \in 1..Len(grid[l]) : grid[l][x] = MaxV
                 /\ \E l \in 1..Len(grid) : \E x \in 1..Len(grid[l]) : grid[l][x] = 0

\* the number of occupied cells of a grid at 0-based index >= from0
OccupiedFrom(grid, from0) ==
    SumSeq([l \in 1..Len(grid) |->
              Cardinality({x \in 1..Len(grid[l]) : x - 1 >= from0 /\ grid[l][x] >= 0})])

\* C12: for every lane length >= 1 and every snapshot t, the throughput
\* metric at t is the number of occupied cells at index >= length -
\* floor(length / 10); for floor(length / 10) = 0 that window is empty and
\* the value is 0.
C12_ThroughputWindow ==
    \A r \in Runners :
        (Built(r) /\ street[r].lane_len >= 1)
            => \A t \in 1..Len(history[r]) :
                  metric_car_throughput(r)[t] =
                     OccupiedFrom(HistoryGrids(r)[t],
                                  street[r].lane_len - (street[r].lane_len \div 10))

\* the length both metrics have for Runner r: one entry per snapshot, and
\* max_timesteps zeros while the history is empty
MetricLen(r) == IF Len(history[r]) = 0 THEN max_timesteps[r] ELSE Len(history[r])

\* C13 (amended): both metrics have len(history) entries when the history
\* is not empty, and max_timesteps entries, all zero, when it is empty.
C13_MetricLengths ==
    \A r \in Runners :
        Built(r)
            => /\ Len(metric_avg_rel_speed(r)) = MetricLen(r)
               /\ Len(metric_car_throughput(r)) = MetricLen(r)
               /\ Len(history[r]) = 0
                     => \A t \in 1..max_timesteps[r] :
                           /\ metric_avg_rel_speed(r)[t].num = 0
                           /\ metric_car_throughput(r)[t] = 0

\* C13 as stated: both metrics always have exactly len(history) entries,
\* so none for a Runner that has not been run
C13_LengthIsHistoryLength ==
    \A r \in Runners :
        Built(r)
            => /\ Len(metric_avg_rel_speed(r)) = Len(history[r])
               /\ Len(metric_car_throughput(r)) = Len(history[r])

\* C13 witness: after a second run() the history is longer than
\* max_timesteps and the metrics have one entry per snapshot
C13_Witness ==
    \E r \in Runners :
        /\ pc[r] = "completed" /\ calls[r] = 2
        /\ Len(history[r]) = 2 * max_timesteps[r]
        /\ Len(metric_car_throughput(r)) = 2 * max_timesteps[r]
        /\ Len(metric_avg_rel_speed(r)) = 2 * max_timesteps[r]

\* C14: for every history run() produced with the canonical pipeline and
\* car_count >= 1, at every t the throughput is in [0, car_count] and the
\* average relative speed is in [0, 1]: 0 <= sum of velocities <= v_max *
\* number of occupied cells.
C14_MetricBounds ==
    \A r \in Runners :
        (Built(r) /\ HasCanonical(r) /\ street[r].n_cars >= 1)
            => \A t \in 1..Len(history[r]) :
                  /\ metric_car_throughput(r)[t] >= 0
                  /\ metric_car_throughput(r)[t] <= street[r].n_cars
                  /\ metric_avg_rel_speed(r)[t].num >= 0
                  /\ metric_avg_rel_speed(r)[t].num <= metric_avg_rel_speed(r)[t].den

\* C14 witness: a canonical run is complete; at its last step every car is
\* counted by the throughput metric and the cars drive at v_max on average
\* at some step and stand at another
C14_Witness ==
    \E r \in Runners :
        /\ HasCanonical(r) /\ pc[r] = "completed"
        /\ Len(history[r]) = MaxSteps /\ street[r].n_cars >= 2
        /\ metric_car_throughput(r)[MaxSteps] = street[r].n_cars
        /\ \E t \in 1..MaxSteps :
             metric_avg_rel_speed(r)[t].num = metric_avg_rel_speed(r)[t].den
        /\ \E t \in 1..MaxSteps : metric_avg_rel_speed(r)[t].num = 0

\* ----- one pass of a rule list (SpecPass) --------------------------------------
\* the pass of Runner r has run: the copy the rules work on was made
Ran(r) == Len(heap[r]) > 1

\* the grid the pass started from, and the array the last rule returned
Input(r) == heap[r][1]

Output(r) == heap[r][Len(heap[r])]

SameShape(g1, g2) == NLanes(g1) = NLanes(g2) /\ LaneLen(g1) = LaneLen(g2)

\* (index + velocity) mod length, for 1-based positions
ModDest(len, x, v) == ((x - 1 + v) % len) + 1

\* no two cars of a lane have the same destination
DistinctDest(grid) ==
    \A l \in 1..Len(grid) : \A x1, x2 \in 1..Len(grid[l]) :
        (x1 # x2 /\ grid[l][x1] >= 0 /\ grid[l][x2] >= 0)
            => ModDest(Len(grid[l]), x1, grid[l][x1]) # ModDest(Len(grid[l]), x2, grid[l][x2])

\* C15: MoveForward.apply places every car (lane i, index x, velocity v) at
\* lane i, index (x + v) mod length with its velocity, for every v >= 0,
\* also v >= length, and every cell that is no car's destination is -1
\* (for grids whose cars have distinct destinations).
C15_MoveForwardModulo ==
    \A r \in Runners :
        (Kinds(rule_list[r]) = <<"MoveForward">> /\ Ran(r) /\ DistinctDest(Input(r)))
            => /\ error[r] # "IndexError"
               /\ SameShape(Input(r), Output(r))
               /\ \A l \in 1..NLanes(Input(r)) : \A x \in 1..LaneLen(Input(r)) :
                     LET len == LaneLen(Input(r))
                     IN  /\ Input(r)[l][x] >= 0
                            => Output(r)[l][ModDest(len, x, Input(r)[l][x])] = Input(r)[l][x]
                         /\ (\A x0 \in 1..len :
                                Input(r)[l][x0] >= 0 => ModDest(len, x0, Input(r)[l][x0]) # x)
                            => Output(r)[l][x] = -1

\* the distance from position x of a lane to the next occupied cell ahead,
\* around the ring (the length of the lane when x holds the only car)
NextCarDistance(lane, x) ==
    CHOOSE d \in 1..Len(lane) :
        /\ lane[((x - 1 + d) % Len(lane)) + 1] >= 0
        /\ \A e \in 1..(d - 1) : lane[((x - 1 + e) % Len(lane)) + 1] < 0

\* a lane with every moving car clamped to one cell short of the next car
Clamped(lane) ==
    [x \in 1..Len(lane) |->
       IF lane[x] > 0 /\ NextCarDistance(lane, x) <= lane[x]
         THEN NextCarDistance(lane, x) - 1
         ELSE lane[x]]

\* C16: on one lane BreakOrTakeOver.apply leaves every car at its cell, sets
\* the velocity of a car with v > 0 whose next car ahead (around the ring)
\* is at distance d <= v to d - 1, and leaves every other cell unchanged.
C16_SingleLaneClamp ==
    \A r \in Runners :
        (Kinds(rule_list[r]) = <<"BreakOrTakeOver">> /\ Ran(r) /\ NLanes(Input(r)) = 1)
            => Output(r) = <<Clamped(Input(r)[1])>>

\* C16 witness: on one lane a car was clamped because of a car behind the
\* end of the lane, and a moving car with room ahead kept its velocity
C16_Witness ==
    \E r \in Runners :
        /\ Kinds(rule_list[r]) = <<"BreakOrTakeOver">> /\ Ran(r)
        /\ NLanes(Input(r)) = 1
        /\ LET in == Input(r)[1]
               out == Output(r)[1]
           IN  /\ \E x \in 1..Len(in) :
                     out[x] < in[x] /\ x + NextCarDistance(in, x) > Len(in)
               /\ \E x \in 1..Len(in) : in[x] > 0 /\ out[x] = in[x]

\* C17: Accelerate(v_max).apply adds 1 to every occupied cell with velocity
\* in [0, v_max) and leaves every other cell unchanged; a grid whose cars
\* all have velocity v_max is returned unchanged.
C17_Accelerate ==
    \A r \in Runners :
        (Kinds(rule_list[r]) = <<"Accelerate">> /\ Ran(r))
            => LET v_max == rule_list[r][1].v_max
               IN  /\ SameShape(Input(r), Output(r))
                   /\ \A l \in 1..NLanes(Input(r)) : \A x \in 1..LaneLen(Input(r)) :
                         Output(r)[l][x] =
                            IF 0 <= Input(r)[l][x] /\ Input(r)[l][x] < v_max
                              THEN Input(r)[l][x] + 1
                              ELSE Input(r)[l][x]
                   /\ (\A l \in 1..NLanes(Input(r)) : \A x \in 1..LaneLen(Input(r)) :
                          Input(r)[l][x] \in {-1, v_max})
                         => Output(r) = Input(r)

\* C17 witness: Accelerate(2) ran on a grid with an empty cell and cars at
\* velocity 1, 2 and 3
C17_Witness ==
    \E r \in Runners :
        /\ Kinds(rule_list[r]) = <<"Accelerate">> /\ Ran(r)
        /\ rule_list[r][1].v_max = 2
        /\ \A v \in {-1, 1, 2, 3} :
              \E l \in 1..NLanes(Input(r)) : \E x \in 1..LaneLen(Input(r)) :
                  Input(r)[l][x] = v
        /\ Output(r) # Input(r)

\* C18: for every grid, on any number of lanes, BreakOrTakeOver.apply
\* returns a grid of the same shape with the same number of occupied cells:
\* a car changing lanes is written onto an empty cell only.
C18_BreakOrTakeOverKeepsCars ==
    \A r \in Runners :
        (Kinds(rule_list[r]) = <<"BreakOrTakeOver">> /\ Ran(r))
            => /\ SameShape(Input(r), Output(r))
               /\ CarCount(Output(r)) = CarCount(Input(r))

\* C19: in one call of BreakOrTakeOver.apply on three or more lanes no car
\* changes lane twice: no take-over from cell (i, index) is followed by a
\* take-over from cell (i + 1, index), where that car then stands.
C19_OneLaneChange ==
    \A r \in Runners :
        (Kinds(rule_list[r]) = <<"BreakOrTakeOver">> /\ Ran(r) /\ NLanes(Input(r)) >= 3)
            => LET moves == LaneChanges(Input(r), 1, 1, {}, {})
               IN  \A m \in moves : <<m[1] + 1, m[2]>> \notin moves

\* every car of the grid with velocity v has the v cells ahead of it in its
\* lane, around the ring, empty
GapsFree(grid) ==
    \A l \in 1..Len(grid) : \A x \in 1..Len(grid[l]) :
        \A j \in 1..grid[l][x] : grid[l][((x - 1 + j) % Len(grid[l])) + 1] = -1

\* C20: after BreakOrTakeOver.apply, on any number of lanes, every car with
\* velocity v has the v cells ahead of it empty; MoveForward applied to that
\* grid, also after Dawdling, moves no two cars to one cell and does not fail.
C20_GapsAfterBraking ==
    \A r \in Runners :
        /\ (Kinds(rule_list[r]) = <<"BreakOrTakeOver">> /\ Ran(r))
              => GapsFree(heap[r][2])
        /\ (Kinds(rule_list[r]) = <<"BreakOrTakeOver", "Dawdling", "MoveForward">> /\ Ran(r))
              => /\ GapsFree(heap[r][2])
                 /\ error[r] # "IndexError"
                 /\ Len(heap[r]) = 4
                 /\ CarCount(heap[r][4]) = CarCount(heap[r][2])

\* C20 witness: on several lanes a car took over, Dawdling slowed a car
\* down, and MoveForward moved the cars
C20_Witness ==
    \E r \in Runners :
        /\ Kinds(rule_list[r]) = <<"BreakOrTakeOver", "Dawdling", "MoveForward">>
        /\ Ran(r) /\ NLanes(Input(r)) >= 2
        /\ LaneChanges(Input(r), 1, 1, {}, {}) # {}
        /\ CarCount(heap[r][2]) >= 2
        /\ heap[r][3] # heap[r][2]
        /\ heap[r][4] # heap[r][3]

\* the lane the car of cell (l, x) is in after MergeBack.apply, given the
\* merges the call made: one lane down if its cell was merged
MergedLane(moves, l, x) ==
    IF l > 1 /\ <<l - 1, x>> \in moves THEN l - 1 ELSE l

\* C21: in one call of MergeBack.apply every car keeps its index and its
\* velocity and moves by at most one lane, toward lane 0, into a cell that
\* was empty when its lane was processed; cars of lane 0 never move, every
\* other cell is empty afterwards, and the number of occupied cells is
\* unchanged.
C21_MergeBack ==
    \A r \in Runners :
        (Kinds(rule_list[r]) = <<"MergeBack">> /\ Ran(r))
            => LET in == Input(r)
                   out == Output(r)
                   moves == MergeBacks(in, 1, 1, {})
                   cars == {c \in (1..NLanes(in)) \X (1..LaneLen(in)) : in[c[1]][c[2]] >= 0}
                   dest == [c \in cars |-> MergedLane(moves, c[1], c[2])]
               IN  /\ SameShape(in, out)
                   /\ CarCount(out) = CarCount(in)
                   /\ \A c \in cars :
                         /\ out[dest[c]][c[2]] = in[c[1]][c[2]]
                         /\ c[1] = 1 => dest[c] = 1
                         /\ dest[c] # c[1]
                               => \/ in[dest[c]][c[2]] = -1
                                  \/ MergedLane(moves, dest[c], c[2]) = dest[c] - 1
                   /\ \A c1, c2 \in cars :
                         (c1 # c2 /\ c1[2] = c2[2]) => dest[c1] # dest[c2]
                   /\ \A l \in 1..NLanes(in) : \A x \in 1..LaneLen(in) :
                         (\A c \in cars : <<dest[c], c[2]>> # <<l, x>>) => out[l][x] = -1

\* C21 witness: on three lanes, in one column the cars of lanes 1 and 2
\* both moved one lane down (lane 0 was empty), and in another column a car
\* of lane 0 stayed
C21_Witness ==
    \E r \in Runners :
        /\ Kinds(rule_list[r]) = <<"MergeBack">> /\ Ran(r)
        /\ NLanes(Input(r)) = 3
        /\ \E x, y \in 1..LaneLen(Input(r)) :
              /\ Input(r)[1][x] = -1 /\ Input(r)[2][x] >= 0 /\ Input(r)[3][x] >= 0
              /\ Input(r)[2][x] # Input(r)[3][x]
              /\ Output(r)[1][x] = Input(r)[2][x] /\ Output(r)[2][x] = Input(r)[3][x]
              /\ Output(r)[3][x] = -1
              /\ Input(r)[1][y] >= 0 /\ Output(r)[1][y] = Input(r)[1][y]

\* C22: for every grid and every draw, Dawdling.apply changes only cells
\* with velocity > 0 and lowers each of them by 0 or 1: empty cells and
\* standing cars keep their value, so no car disappears and no velocity
\* becomes negative; with probability 0 the result equals the input.
C22_Dawdling ==
    \A r \in Runners :
        (Kinds(rule_list[r]) = <<"Dawdling">> /\ Ran(r))
            => LET in == Input(r)
                   out == Output(r)
               IN  /\ SameShape(in, out)
                   /\ CarCount(out) = CarCount(in)
                   /\ \A l \in 1..NLanes(in) : \A x \in 1..LaneLen(in) :
                         /\ in[l][x] <= 0 => out[l][x] = in[l][x]
                         /\ in[l][x] > 0 => out[l][x] \in {in[l][x], in[l][x] - 1}
                         /\ out[l][x] >= -1
                   /\ rule_list[r][1].dawning_fac = 0 => out = in

\* C22 witness: Dawdling with a probability strictly between 0 and 1 ran on
\* a grid with an empty cell, a standing car and two moving cars, drew a
\* one for the empty cell and for the standing car, and slowed down one of
\* the moving cars only
C22_Witness ==
    \E r \in Runners :
        /\ Kinds(rule_list[r]) = <<"Dawdling">> /\ Ran(r)
        /\ rule_list[r][1].dawning_fac \notin {0, 100}
        /\ \E k \in DOMAIN rng_memo.choice :
              \E c1, c2, c3, c4 \in (1..NLanes(Input(r))) \X (1..LaneLen(Input(r))) :
                  /\ Input(r)[c1[1]][c1[2]] = -1 /\ rng_memo.choice[k][c1[1]][c1[2]] = 1
                  /\ Input(r)[c2[1]][c2[2]] = 0 /\ rng_memo.choice[k][c2[1]][c2[2]] = 1
                  /\ Input(r)[c3[1]][c3[2]] > 0
                  /\ Output(r)[c3[1]][c3[2]] = Input(r)[c3[1]][c3[2]] - 1
                  /\ Input(r)[c4[1]][c4[2]] > 0
                  /\ Output(r)[c4[1]][c4[2]] = Input(r)[c4[1]][c4[2]]

\* C23: serialize() has no effect on the Runner it is called on: its Street
\* still holds its grid afterwards, so a following serialize() succeeds (no
\* KeyError) and a following run() reads the grid (no AttributeError).
C23_SerializeNoEffect ==
    \A r \in Runners :
        Built(r)
            => /\ street[r].state # 0
               /\ pickled.of = r => pickled.status # "KeyError"
               /\ error[r] # "AttributeError"

====
